---- MODULE Spec2Model ----
(***************************************************************************)
(* Model of contrib/check_dependency_urls.py: the .mk variable extractor   *)
(* (parse_mk_file), the same-package and cross-package resolvers, the URL  *)
(* builder, the availability classification and the run loop of main().    *)
(*                                                                         *)
(* A Python str is a sequence of one-character strings, so that strip,     *)
(* startswith, replace and the regular expressions are computed character  *)
(* by character.  A Python dict is a function on its keys; all_packages,   *)
(* whose iteration order matters, is a sequence of [name, vars] records.   *)
(***************************************************************************)
EXTENDS Integers, Sequences, FiniteSets, TLC

\* ------------------------------------------------------------------ str

\* Python None (only compared, never indexed).
None == <<"None">>

Lower == {"a","b","c","d","e","f","g","h","i","j","k","l","m",
          "n","o","p","q","r","s","t","u","v","w","x","y","z"}
Upper == {"A","B","C","D","E","F","G","H","I","J","K","L","M",
          "N","O","P","Q","R","S","T","U","V","W","X","Y","Z"}
Digit == {"0","1","2","3","4","5","6","7","8","9"}

\* The characters of the model are the code points 0 to 255; the classes
\* below are the code's classes on them.
\* The letters, digits and numerics above 127 that a str pattern's \w takes.
Latin1Word == {
    "ª","²","³","µ","¹","º","¼","½","¾","À","Á","Â","Ã","Ä","Å","Æ",
    "Ç","È","É","Ê","Ë","Ì","Í","Î","Ï","Ð","Ñ","Ò","Ó","Ô","Õ","Ö",
    "Ø","Ù","Ú","Û","Ü","Ý","Þ","ß","à","á","â","ã","ä","å","æ","ç",
    "è","é","ê","ë","ì","í","î","ï","ð","ñ","ò","ó","ô","õ","ö","ø",
    "ù","ú","û","ü","ý","þ","ÿ"}

IdentStartChars == Lower \cup Upper \cup {"_"}
IdentChars == Lower \cup Upper \cup Digit \cup {"_"}
WordChars == IdentChars \cup Latin1Word
\* \t \n \v \f \r, the separators 28 to 31, space, NEL (133) and the
\* no-break space (160)
SpaceChars == {"\t", "\n", "", "\f", "\r", "", "", "", "", " ", "", " "}

\* [a-zA-Z_]
IsIdentStart(c) == c \in IdentStartChars
\* [a-zA-Z0-9_]
IsIdent(c) == c \in IdentChars
\* \w of a str pattern
IsWord(c) == c \in WordChars
\* \s of a str pattern and the characters str.strip() removes
IsSpace(c) == c \in SpaceChars

Min(S) == CHOOSE x \in S : \A y \in S : x <= y
Max(S) == CHOOSE x \in S : \A y \in S : x >= y

\* s[i:]  (1-based i)
From(s, i) == SubSeq(s, i, Len(s))

\* s.startswith(p)
StartsWith(s, p) == Len(s) >= Len(p) /\ SubSeq(s, 1, Len(p)) = p
\* s.startswith(p, i-1)
StartsWithAt(s, p, i) == i + Len(p) - 1 <= Len(s) /\ SubSeq(s, i, i + Len(p) - 1) = p
\* s.endswith(p)
EndsWith(s, p) == Len(s) >= Len(p) /\ SubSeq(s, Len(s) - Len(p) + 1, Len(s)) = p
\* p in s
Contains(s, p) == \E i \in 1..Len(s) : StartsWithAt(s, p, i)

\* s.rstrip(c): every trailing c is removed
RStrip(s, c) ==
    LET keep == {i \in 1..Len(s) : s[i] # c}
    IN IF keep = {} THEN << >> ELSE SubSeq(s, 1, Max(keep))
\* s.lstrip(c): every leading c is removed
LStrip(s, c) ==
    LET keep == {i \in 1..Len(s) : s[i] # c}
    IN IF keep = {} THEN << >> ELSE From(s, Min(keep))
\* s.strip(): leading and trailing whitespace removed
Strip(s) ==
    LET keep == {i \in 1..Len(s) : ~IsSpace(s[i])}
    IN IF keep = {} THEN << >> ELSE SubSeq(s, Min(keep), Max(keep))

\* s.replace(old, new) for a non-empty old: every non-overlapping
\* occurrence, left to right
RECURSIVE Replace(_, _, _)
Replace(s, old, new) ==
    CHOOSE r \in {IF at = {} THEN s
                  ELSE SubSeq(s, 1, Min(at) - 1) \o new
                       \o Replace(From(s, Min(at) + Len(old)), old, new) :
                    at \in {{i \in 1..(Len(s) - Len(old) + 1) :
                                s[i] = old[1] /\ StartsWithAt(s, old, i)}}} : TRUE

\* ' '.join(parts)
RECURSIVE Join(_)
Join(parts) ==
    IF Len(parts) = 0 THEN << >>
    ELSE IF Len(parts) = 1 THEN parts[1]
    ELSE parts[1] \o <<" ">> \o Join(Tail(parts))

\* ------------------------------------------------------------ build_url

\* A build_url that removes one slash where the code removes all of them:
\* s without its last character when that is c, s without its first
\* character when that is c.
DropOneTrailing(s, c) == IF Len(s) > 0 /\ s[Len(s)] = c THEN SubSeq(s, 1, Len(s) - 1) ELSE s
DropOneLeading(s, c) == IF Len(s) > 0 /\ s[1] = c THEN Tail(s) ELSE s
build_url_strip_one(download_path, file_name) ==
    LET dp == DropOneTrailing(download_path, "/")
        fn == DropOneLeading(file_name, "/")
    IN IF EndsWith(dp, <<"/">>) THEN dp \o fn ELSE dp \o <<"/">> \o fn

build_url(download_path, file_name) ==
    LET dp == RStrip(download_path, "/")
        fn == LStrip(file_name, "/")
    IN IF EndsWith(dp, <<"/">>) THEN dp \o fn ELSE dp \o <<"/">> \o fn

\* ---------------------------------------------------- resolve_variables

max_iterations == 20
cross_max_iterations == 10

\* '$(package)'
PackageToken == <<"$","(","p","a","c","k","a","g","e",")">>

\* '$(' at s[i]: the start of each of the placeholder patterns
DollarParenAt(s, i) == i + 1 <= Len(s) /\ s[i] = "$" /\ s[i + 1] = "("

\* End of the run of \w characters that starts at s[j] (j - 1 when s[j] is none).
WordRunEnd(s, j) ==
    LET stops == {k \in j..Len(s) : ~IsWord(s[k])}
    IN IF stops = {} THEN Len(s) ELSE Min(stops) - 1

\* End of the run of [a-zA-Z0-9_] characters that starts at s[j]
IdentRunEnd(s, j) ==
    LET stops == {k \in j..Len(s) : ~IsIdent(s[k])}
    IN IF stops = {} THEN Len(s) ELSE Min(stops) - 1

\* var_pattern r'\$\(([a-zA-Z_][a-zA-Z0-9_]*)\)' matches at s[i]
VarMatchAt(s, i) ==
    /\ DollarParenAt(s, i)
    /\ i + 2 <= Len(s)
    /\ IsIdentStart(s[i + 2])
    /\ IdentRunEnd(s, i + 2) + 1 <= Len(s)
    /\ s[IdentRunEnd(s, i + 2) + 1] = ")"

\* The underscores at which nested_pattern can split the name at s[i]:
\* ([a-zA-Z_][a-zA-Z0-9_]*) takes at least one character and only
\* [a-zA-Z0-9_], (\w+) takes the rest of the \w run and at least one character.
NestedSplits(s, i) ==
    {u \in (i + 3)..Min({IdentRunEnd(s, i + 2), WordRunEnd(s, i + 2) - 1}) : s[u] = "_"}

\* nested_pattern r'\$\(([a-zA-Z_][a-zA-Z0-9_]*)_(\w+)\)' matches at s[i]
NestedMatchAt(s, i) ==
    /\ DollarParenAt(s, i)
    /\ i + 2 <= Len(s)
    /\ IsIdentStart(s[i + 2])
    /\ WordRunEnd(s, i + 2) + 1 <= Len(s)
    /\ s[WordRunEnd(s, i + 2) + 1] = ")"
    /\ NestedSplits(s, i) # {}

\* re.search(nested_pattern, s): the leftmost match, group(1) greedy
NestedSearch(s) ==
    LET at == {i \in 1..Len(s) : NestedMatchAt(s, i)}
    IN IF at = {} THEN [found |-> FALSE]
       ELSE LET i == Min(at)
                e == WordRunEnd(s, i + 2)
                u == Max(NestedSplits(s, i))
            IN [found |-> TRUE,
                group0 |-> SubSeq(s, i, e + 1),
                prefix |-> SubSeq(s, i + 2, u - 1),
                var_name |-> SubSeq(s, u + 1, e)]

\* re.search(var_pattern, s): the leftmost match
VarSearch(s) ==
    LET at == {i \in 1..Len(s) : VarMatchAt(s, i)}
    IN IF at = {} THEN [found |-> FALSE]
       ELSE LET i == Min(at)
                e == IdentRunEnd(s, i + 2)
            IN [found |-> TRUE, group0 |-> SubSeq(s, i, e + 1), var_key |-> SubSeq(s, i + 2, e)]

\* Below, `CHOOSE r \in {e(x) : x \in {d}} : TRUE` is `LET x == d IN e(x)`
\* with d evaluated once.

\* The body of the while loop after result.replace('$(package)', package_name)
\* gave r1: the string after the pass and the changed flag.
ResolveAfterPackage(r1, result, vars, pkg) ==
    LET nm == NestedSearch(r1)
        dm == VarSearch(r1)
    IN IF nm.found /\ nm.prefix = pkg /\ nm.var_name \in DOMAIN vars
       THEN [result |-> Replace(r1, nm.group0, vars[nm.var_name]), changed |-> TRUE]
       ELSE IF /\ dm.found
               /\ StartsWith(dm.var_key, pkg \o <<"_">>)
               /\ From(dm.var_key, Len(pkg) + 2) \in DOMAIN vars
       THEN [result |-> Replace(r1, dm.group0, vars[From(dm.var_key, Len(pkg) + 2)]),
             changed |-> TRUE]
       ELSE [result |-> r1, changed |-> r1 # result]

\* One pass of the while loop's body (lines 144-182).
ResolveIteration(result, vars, pkg) ==
    CHOOSE r \in {ResolveAfterPackage(r1, result, vars, pkg) :
                      r1 \in {Replace(result, PackageToken, pkg)}} : TRUE

\* while iteration < max_iterations
ResolveLoopGuard_OffByOne(n) == n <= max_iterations
ResolveLoopGuard(n) == n < max_iterations

\* The while loop from iteration n on: the returned string and the final
\* value of the iteration counter.
RECURSIVE ResolveFrom(_, _, _, _)
ResolveFrom(result, vars, pkg, n) ==
    IF ~ResolveLoopGuard(n) THEN [result |-> result, iteration |-> n]
    ELSE CHOOSE r \in {IF it.changed THEN ResolveFrom(it.result, vars, pkg, n + 1)
                       ELSE [result |-> it.result, iteration |-> n + 1] :
                          it \in {ResolveIteration(result, vars, pkg)}} : TRUE

resolve_variables(v, vars, pkg) == ResolveFrom(v, vars, pkg, 0).result

\* -------------------------------------- resolve_cross_package_variables

\* dict operations on all_packages, a sequence of [name, vars] with distinct names
PackageNames(ap) == {ap[k].name : k \in 1..Len(ap)}
PackageVars(ap, name) == ap[CHOOSE k \in 1..Len(ap) : ap[k].name = name].vars

\* pattern r'\$\(([^)]+)\)' matches at s[i]
CrossMatchAt(s, i) ==
    /\ DollarParenAt(s, i)
    /\ i + 2 <= Len(s)
    /\ s[i + 2] # ")"
    /\ \E c \in (i + 3)..Len(s) : s[c] = ")"

\* list(re.finditer(pattern, s)) from s[pos] on: non-overlapping, left to right.
\* first/last are the 1-based positions of '$' and ')'.
RECURSIVE CrossMatchesFrom(_, _)
CrossMatchesFrom(s, pos) ==
    LET at == {i \in pos..Len(s) : CrossMatchAt(s, i)}
    IN IF at = {} THEN << >>
       ELSE LET i == Min(at)
                c == Min({k \in (i + 3)..Len(s) : s[k] = ")"})
            IN <<[first |-> i, last |-> c, full_var |-> SubSeq(s, i + 2, c - 1)]>>
               \o CrossMatchesFrom(s, c + 1)

CrossMatches(s) == CrossMatchesFrom(s, 1)

\* var_name = full_var[len(other_package) + 1:]
PrefixVarName_KeepsUnderscore(full_var, other_package) == From(full_var, Len(other_package) + 1)
PrefixVarName(full_var, other_package) == From(full_var, Len(other_package) + 2)

\* The packages, by position in all_packages, that the prefix scan accepts.
PrefixHits(full_var, pkg, ap) ==
    {k \in 1..Len(ap) :
        /\ ap[k].name # pkg
        /\ StartsWith(full_var, ap[k].name \o <<"_">>)
        /\ PrefixVarName(full_var, ap[k].name) \in DOMAIN ap[k].vars}

\* full_var.rsplit('_', 1)
RSplitUnderscore(full_var) ==
    LET us == {u \in 1..Len(full_var) : full_var[u] = "_"}
    IN IF us = {} THEN <<full_var>>
       ELSE <<SubSeq(full_var, 1, Max(us) - 1), From(full_var, Max(us) + 1)>>

\* The conditions of the last-underscore fallback.
FallbackHits(full_var, pkg, ap) ==
    LET parts == RSplitUnderscore(full_var)
    IN /\ Len(parts) = 2
       /\ parts[1] # pkg
       /\ parts[1] \in PackageNames(ap)
       /\ parts[2] \in DOMAIN PackageVars(ap, parts[1])

\* The body of `for match in reversed(matches)` for one match m: the string
\* after it, whether it substituted, which branch did, and the iteration
\* counter of the resolve_variables call it made.
CrossSubstitute(result, m, pkg, ap) ==
    LET hits == PrefixHits(m.full_var, pkg, ap)
        parts == RSplitUnderscore(m.full_var)
        splice(v) == SubSeq(result, 1, m.first - 1) \o v \o From(result, m.last + 1)
    IN IF hits # {}
       THEN CHOOSE r \in {[result |-> splice(rv.result), changed |-> TRUE,
                           branch |-> "prefix", inner |-> rv.iteration] :
                 other \in {ap[Min(hits)]},
                 rv \in {ResolveFrom(
                            ap[Min(hits)].vars[PrefixVarName(m.full_var, ap[Min(hits)].name)],
                            ap[Min(hits)].vars, ap[Min(hits)].name, 0)}} : TRUE
       ELSE IF FallbackHits(m.full_var, pkg, ap)
       THEN CHOOSE r \in {[result |-> splice(rv.result), changed |-> TRUE,
                           branch |-> "fallback", inner |-> rv.iteration] :
                 rv \in {ResolveFrom(PackageVars(ap, parts[1])[parts[2]],
                                     PackageVars(ap, parts[1]), parts[1], 0)}} : TRUE
       ELSE [result |-> result, changed |-> FALSE, branch |-> "none", inner |-> 0]

\* while iteration < max_iterations  (max_iterations = 10)
CrossLoopGuard(n) == n < cross_max_iterations

\* One round of the while loop: every match, last to first.
RECURSIVE CrossRoundFrom(_, _, _, _, _)
CrossRoundFrom(result, ms, k, pkg, ap) ==
    IF k = 0 THEN [result |-> result, changed |-> FALSE]
    ELSE CHOOSE r \in {[result |-> rest.result, changed |-> one.changed \/ rest.changed] :
                 one \in {CrossSubstitute(result, ms[k], pkg, ap)},
                 rest \in {CrossRoundFrom(
                              CrossSubstitute(result, ms[k], pkg, ap).result,
                              ms, k - 1, pkg, ap)}} : TRUE

RECURSIVE CrossFrom(_, _, _, _)
CrossFrom(result, pkg, ap, n) ==
    IF ~CrossLoopGuard(n) THEN result
    ELSE CHOOSE r \in {IF round.changed THEN CrossFrom(round.result, pkg, ap, n + 1)
                       ELSE round.result :
                 round \in {CrossRoundFrom(result, CrossMatches(result),
                                           Len(CrossMatches(result)), pkg, ap)}} : TRUE

resolve_cross_package_variables(v, pkg, ap) == CrossFrom(v, pkg, ap, 0)

\* -------------------------------------------------------- parse_mk_file

\* A Python dict as a function on its keys
EmptyDict == [k \in {} |-> << >>]
Put(d, k, v) == [x \in DOMAIN d \cup {k} |-> IF x = k THEN v ELSE d[x]]

KwPackageEq == <<"p","a","c","k","a","g","e","=">>
KwIf == <<"i","f">>
KwIfeq == <<"i","f","e","q">>
KwIfneq == <<"i","f","n","e","q">>
KwElse == <<"e","l","s","e">>
KwEndif == <<"e","n","d","i","f">>
KwDefine == <<"d","e","f","i","n","e"," ">>
KwEndef == <<"e","n","d","e","f">>
\* '$(package)_'
AssignPrefix == <<"$","(","p","a","c","k","a","g","e",")","_">>

\* The lines of a file as the code sees them after strip(): a line carries
\* no line terminator.

\* line.split('=', 1)[1].strip() of a line that starts with 'package='
PackageNameOf(stripped) == Strip(From(stripped, Len(KwPackageEq) + 1))

\* Lines 67-74: the name on the first line starting with 'package=';
\* None when there is none or the name is empty.
ExtractPackageName(lines) ==
    LET at == {i \in 1..Len(lines) : StartsWith(Strip(lines[i]), KwPackageEq)}
    IN IF at = {} THEN None
       ELSE IF PackageNameOf(Strip(lines[Min(at)])) = << >> THEN None
       ELSE PackageNameOf(Strip(lines[Min(at)]))

\* re.match(r'\$\(package\)_(\w+)\s*=\s*(.+)', stripped); stripped neither
\* starts nor ends with whitespace.
AssignMatch(stripped) ==
    LET n0 == Len(AssignPrefix) + 1
        ne == WordRunEnd(stripped, n0)
        afterName == From(stripped, ne + 1)
        eqRest == LET keep == {i \in 1..Len(afterName) : ~IsSpace(afterName[i])}
                  IN IF keep = {} THEN << >> ELSE From(afterName, Min(keep))
        rhs == IF eqRest = << >> THEN << >> ELSE Tail(eqRest)
        keepR == {i \in 1..Len(rhs) : ~IsSpace(rhs[i])}
    IN IF /\ StartsWith(stripped, AssignPrefix)
          /\ ne >= n0
          /\ eqRest # << >>
          /\ Head(eqRest) = "="
          /\ keepR # {}
       THEN [found |-> TRUE,
             group1 |-> SubSeq(stripped, n0, ne),
             group2 |-> From(rhs, Min(keepR))]
       ELSE [found |-> FALSE]

\* re.sub(r'\s+(if|else|endif|ifeq|ifneq).*$', '', s)
StripConditionalSuffix(s) ==
    LET kws == {KwIf, KwElse, KwEndif, KwIfeq, KwIfneq}
        cut == {p \in 1..Len(s) :
                  \E q \in (p + 1)..Len(s) :
                     /\ \A k \in p..(q - 1) : IsSpace(s[k])
                     /\ \E kw \in kws : StartsWithAt(s, kw, q)}
    IN IF cut = {} THEN s ELSE SubSeq(s, 1, Min(cut) - 1)

\* variables[current_var] = ' '.join(current_value).strip() when current_var is set
Flush(st) ==
    IF st.current_var # None
    THEN Put(st.variables, st.current_var, Strip(Join(st.current_value)))
    ELSE st.variables

\* elif current_var and stripped and not in_conditional
ContinuationAccepted_IgnoresConditional(st) == st.current_var # None
ContinuationAccepted(st) == st.current_var # None /\ ~st.in_conditional

\* elif stripped.startswith('endif'): conditional_depth -= 1 and the flag's reset
CloseConditional(st) ==
    [st EXCEPT !.conditional_depth = @ - 1,
               !.in_conditional = IF st.conditional_depth - 1 = 0 THEN FALSE ELSE @]

\* The body of the second `for line in lines` loop (lines 83-125) for one line.
ParseLine(st, line) ==
    LET stripped == Strip(line)
        m == AssignMatch(stripped)
        clean_line == StripConditionalSuffix(stripped)
    IN IF stripped = << >> \/ StartsWith(stripped, <<"#">>) THEN st
       ELSE IF \/ StartsWith(stripped, KwIf)
               \/ StartsWith(stripped, KwIfeq)
               \/ StartsWith(stripped, KwIfneq)
       THEN [st EXCEPT !.in_conditional = TRUE, !.conditional_depth = @ + 1]
       ELSE IF StartsWith(stripped, KwElse) THEN st
       ELSE IF StartsWith(stripped, KwEndif) THEN CloseConditional(st)
       ELSE IF StartsWith(stripped, KwDefine) \/ StartsWith(stripped, KwEndef) THEN st
       ELSE IF m.found
       THEN [st EXCEPT !.variables = Flush(st),
                       !.current_var = m.group1,
                       !.current_value = <<StripConditionalSuffix(Strip(m.group2))>>]
       ELSE IF ContinuationAccepted(st) /\ clean_line # << >>
       THEN [st EXCEPT !.current_value = Append(@, clean_line)]
       ELSE st

\* Lines 78-81
ParseStart ==
    [current_var |-> None, current_value |-> << >>, in_conditional |-> FALSE,
     conditional_depth |-> 0, variables |-> EmptyDict]

RECURSIVE ParseLines(_, _, _)
ParseLines(st, lines, i) ==
    IF i > Len(lines) THEN st
    ELSE CHOOSE r \in {ParseLines(st1, lines, i + 1) :
                          st1 \in {ParseLine(st, lines[i])}} : TRUE

\* parse_mk_file on a file that was read: (package_name, variables)
parse_mk_file(lines) ==
    IF ExtractPackageName(lines) = None
    THEN [package_name |-> None, variables |-> EmptyDict]
    ELSE CHOOSE r \in {[package_name |-> ExtractPackageName(lines), variables |-> Flush(st)] :
                          st \in {ParseLines(ParseStart, lines, 1)}} : TRUE

\* ------------------------------------------------------------ check_url

Fontconfig == <<"f","o","n","t","c","o","n","f","i","g">>
Zeromq == <<"z","e","r","o","m","q">>

\* What requests.head does is an input: an HTTP response with a status code,
\* one of the requests exceptions the function catches, or any other exception.
HttpResponse(code) == [kind |-> "response", code |-> code]
Timeout == [kind |-> "Timeout", code |-> 0]
ConnectionError == [kind |-> "ConnectionError", code |-> 0]
TooManyRedirects == [kind |-> "TooManyRedirects", code |-> 0]
RequestException == [kind |-> "RequestException", code |-> 0]
OtherException == [kind |-> "Exception", code |-> 0]

\* elif status_code == 418 and package_name == 'fontconfig'
TeapotException_AnyPackage(status_code, pkg) == status_code = 418
TeapotException(status_code, pkg) == status_code = 418 /\ pkg = Fontconfig

\* check_url(url, package_name) given what requests.head did; raised is set
\* when the exception is not one the function catches.
check_url(probe, pkg) ==
    IF probe.kind = "response"
    THEN IF probe.code = 200
         THEN [raised |-> FALSE, success |-> TRUE, status_code |-> probe.code, message |-> "Ok"]
         ELSE IF probe.code = 404
         THEN [raised |-> FALSE, success |-> FALSE, status_code |-> probe.code,
               message |-> "Not Found"]
         ELSE IF TeapotException(probe.code, pkg)
         THEN [raised |-> FALSE, success |-> TRUE, status_code |-> probe.code,
               message |-> "Ok (418 - special case)"]
         ELSE [raised |-> FALSE, success |-> FALSE, status_code |-> probe.code,
               message |-> "HTTP " \o ToString(probe.code)]
    ELSE IF probe.kind = "Timeout"
    THEN [raised |-> FALSE, success |-> FALSE, status_code |-> 0, message |-> "Timeout"]
    ELSE IF probe.kind = "ConnectionError"
    THEN [raised |-> FALSE, success |-> FALSE, status_code |-> 0,
          message |-> "Connection Error"]
    ELSE IF probe.kind = "TooManyRedirects"
    THEN [raised |-> FALSE, success |-> FALSE, status_code |-> 0,
          message |-> "Too Many Redirects"]
    ELSE IF probe.kind = "RequestException"
    THEN [raised |-> FALSE, success |-> FALSE, status_code |-> 0,
          message |-> "Error: <details>"]
    ELSE [raised |-> TRUE]

\* ------------------------------------------------ check_dependency_file

KeyDownloadPath == <<"d","o","w","n","l","o","a","d","_","p","a","t","h">>
KeyDownloadFile == <<"d","o","w","n","l","o","a","d","_","f","i","l","e">>
KeyFileName == <<"f","i","l","e","_","n","a","m","e">>

\* Lines 334-339: the result for a package without download_path
MissingDownloadPath_AsError(pkg) ==
    [package |-> pkg, status |-> "error",
     message |-> "Missing required variable (download_path)"]
MissingDownloadPath(pkg) ==
    [package |-> pkg, status |-> "skip",
     message |-> "Missing required variable (download_path)"]

\* Lines 391-396: except Exception as e
ErrorProcessing(stem) ==
    [package |-> stem, status |-> "error", message |-> "Error processing: <details>"]

\* Lines 377-389: the URL is built and probed.
CheckBuiltUrl(dp, fn, pkg, stem, probe) ==
    LET chk == check_url(probe, pkg)
    IN IF Contains(dp, <<"$", "(">>) \/ Contains(fn, <<"$", "(">>)
       THEN [package |-> pkg, status |-> "skip",
             message |-> "Failed to resolve all variables (possible cross-package references)"]
       ELSE IF chk.raised THEN ErrorProcessing(stem)
       ELSE [package |-> pkg, url |-> build_url(dp, fn),
             status |-> IF chk.success THEN "ok" ELSE "error",
             status_code |-> chk.status_code, message |-> chk.message]

\* Lines 360-367: Pass A on download_path and the file variable, then Pass B
\* when all_packages is not empty.
CheckResolved(vs, file_var, pkg, stem, ap, probe) ==
    CHOOSE r \in {CheckBuiltUrl(
                      IF ap # << >> THEN resolve_cross_package_variables(dp0, pkg, ap) ELSE dp0,
                      IF ap # << >> THEN resolve_cross_package_variables(fn0, pkg, ap) ELSE fn0,
                      pkg, stem, probe) :
                    dp0 \in {resolve_variables(vs[KeyDownloadPath], vs, pkg)},
                    fn0 \in {resolve_variables(vs[file_var], vs, pkg)}} : TRUE

\* Lines 326-358, on what parse_mk_file returned.
CheckParsed(parsed, stem, ap, probe) ==
    LET pkg == parsed.package_name
        vs == parsed.variables
        file_var == IF pkg = Zeromq /\ KeyFileName \in DOMAIN vs THEN KeyFileName
                    ELSE IF KeyDownloadFile \in DOMAIN vs THEN KeyDownloadFile
                    ELSE KeyFileName
    IN IF pkg = None
       THEN [package |-> stem, status |-> "error",
             message |-> "Failed to determine package name"]
       ELSE IF KeyDownloadPath \notin DOMAIN vs THEN MissingDownloadPath(pkg)
       ELSE IF file_var \notin DOMAIN vs
       THEN [package |-> pkg, status |-> "skip",
             message |-> "Missing required variable (download_file or file_name)"]
       ELSE CheckResolved(vs, file_var, pkg, stem, ap, probe)

\* check_dependency_file(mk_file, depends_dir, all_packages): read_ok says
\* whether open() in parse_mk_file succeeded, lines is the file's content,
\* stem is mk_file.stem, probe is what requests.head does if it is called.
check_dependency_file(read_ok, lines, stem, ap, probe) ==
    IF ~read_ok THEN ErrorProcessing(stem)
    ELSE CHOOSE r \in {CheckParsed(parsed, stem, ap, probe) :
                          parsed \in {parse_mk_file(lines)}} : TRUE

\* Whether check_dependency_file gets as far as requests.head (line 381).
Probes(read_ok, lines, stem, ap) ==
    "url" \in DOMAIN check_dependency_file(read_ok, lines, stem, ap, HttpResponse(200))

\* ================================================================ runs

VARIABLES
    pc,                 \* where the running function is
    \* build_url
    download_path, file_name, url,
    \* parse_mk_file
    lines, line_no, package_name, current_var, current_value,
    in_conditional, conditional_depth, variables,
    \* resolve_variables, resolve_cross_package_variables
    value, all_packages, result, iteration, changed,
    matches, match_idx, branch, inner_iteration,
    \* main
    dir_exists, dir_names, mk_files, to_load, idx, results, io_log,
    exit_code, traceback

urlVars == <<download_path, file_name, url>>
parseVars == <<lines, line_no, current_var, current_value,
               in_conditional, conditional_depth>>
resolveVars == <<value, result, iteration, changed,
                 matches, match_idx, branch, inner_iteration>>
mainVars == <<dir_exists, dir_names, mk_files, to_load, idx, results, io_log,
              exit_code, traceback>>
\* package_name, variables and all_packages are locals of more than one function
sharedVars == <<package_name, variables, all_packages>>
vars == <<pc, urlVars, parseVars, resolveVars, mainVars, sharedVars>>

\* The variables of the functions a run does not call keep these values.
UrlIdle == download_path = << >> /\ file_name = << >> /\ url = << >>
ParseIdle ==
    /\ lines = << >> /\ line_no = 0 /\ current_var = None /\ current_value = << >>
    /\ in_conditional = FALSE /\ conditional_depth = 0
ResolveIdle ==
    /\ value = << >> /\ result = << >> /\ iteration = 0 /\ changed = FALSE
    /\ matches = << >> /\ match_idx = 0 /\ branch = "none" /\ inner_iteration = 0
MainIdle ==
    /\ dir_exists = FALSE /\ dir_names = {} /\ mk_files = << >> /\ to_load = {}
    /\ idx = 0 /\ results = << >> /\ io_log = << >> /\ exit_code = -1
    /\ traceback = FALSE
SharedIdle == package_name = None /\ variables = EmptyDict /\ all_packages = << >>

\* ------------------------------------------------------ a build_url call

MaxUrlLen == 3

RECURSIVE SeqsUpTo(_, _)
SeqsUpTo(S, n) ==
    IF n = 0 THEN {<< >>}
    ELSE SeqsUpTo(S, n - 1) \cup {<<c>> \o t : c \in S, t \in SeqsUpTo(S, n - 1)}

InitUrl ==
    /\ pc = "build_url"
    /\ download_path \in SeqsUpTo({"/", "a"}, MaxUrlLen)
    /\ file_name \in SeqsUpTo({"/", "a"}, MaxUrlLen)
    /\ url = << >>
    /\ ParseIdle /\ ResolveIdle /\ MainIdle /\ SharedIdle

BuildUrl ==
    /\ pc = "build_url"
    /\ url' = build_url(download_path, file_name)
    /\ pc' = "build_url_returned"
    /\ UNCHANGED <<download_path, file_name, parseVars, resolveVars, mainVars, sharedVars>>

NextUrl == BuildUrl
SpecUrl == InitUrl /\ [][NextUrl]_vars

\* C5 as stated: the result is the base path less exactly one trailing slash
\* (if it has one), one '/', and the file name less exactly one leading slash
\* (if it has one).
C5_StripsExactlyOneSlash ==
    pc = "build_url_returned" =>
        url = DropOneTrailing(download_path, "/") \o <<"/">> \o DropOneLeading(file_name, "/")

\* C5 amended: build_url returns the base path with all of its trailing
\* slashes removed, then a single '/', then the file name with all of its
\* leading slashes removed.
C5_StripsAllSlashes ==
    pc = "build_url_returned" =>
        \E i \in 0..Len(download_path), j \in 1..(Len(file_name) + 1) :
            /\ i = 0 \/ download_path[i] # "/"
            /\ \A k \in (i + 1)..Len(download_path) : download_path[k] = "/"
            /\ j = Len(file_name) + 1 \/ file_name[j] # "/"
            /\ \A k \in 1..(j - 1) : file_name[k] = "/"
            /\ url = SubSeq(download_path, 1, i) \o <<"/">> \o From(file_name, j)

\* A call whose base path ends in two slashes and whose file name starts with two.
C5_Witness ==
    /\ pc = "build_url_returned"
    /\ EndsWith(download_path, <<"a", "/", "/">>)
    /\ StartsWith(file_name, <<"/", "/", "a">>)
    /\ url = <<"a", "/", "a">>

\* --------------------------------------------------- a parse_mk_file call

MaxLines == 4

LinePackage == <<"p","a","c","k","a","g","e","=","f">>
\* The lines a file's body is drawn from.
BodyLines == {
    <<"$","(","p","a","c","k","a","g","e",")","_","a","=","1">>,
    <<"$","(","p","a","c","k","a","g","e",")","_","b"," ","="," ","2"," ","i","f","e","q"," ","x">>,
    <<"i","f","e","q"," ","(","x",",","y",")">>,
    <<"e","l","s","e">>,
    <<"e","n","d","i","f">>,
    <<" "," ","m","o","r","e"," ","i","f"," ","y">>,
    <<"#"," ","c">>,
    <<"d","e","f","i","n","e"," ","d">> }

InitParse ==
    /\ pc = "parse_mk_file"
    /\ lines \in {<<LinePackage>> \o b : b \in SeqsUpTo(BodyLines, MaxLines)}
                 \cup SeqsUpTo(BodyLines, 1)
    /\ line_no = 0 /\ current_var = None /\ current_value = << >>
    /\ in_conditional = FALSE /\ conditional_depth = 0
    /\ package_name = None /\ variables = EmptyDict /\ all_packages = << >>
    /\ UrlIdle /\ ResolveIdle /\ MainIdle

\* Lines 60-81: the package name; return (None, {}) without one.
Parse_PackageName ==
    /\ pc = "parse_mk_file"
    /\ package_name' = ExtractPackageName(lines)
    /\ IF ExtractPackageName(lines) = None
       THEN pc' = "parse_returned" /\ line_no' = line_no
       ELSE pc' = "parse_scan" /\ line_no' = 1
    /\ UNCHANGED <<lines, current_var, current_value, in_conditional, conditional_depth,
                   variables, all_packages, urlVars, resolveVars, mainVars>>

\* Lines 83-125: one line of the scan.
Parse_Line ==
    /\ pc = "parse_scan"
    /\ line_no <= Len(lines)
    /\ LET st == ParseLine([current_var |-> current_var, current_value |-> current_value,
                            in_conditional |-> in_conditional,
                            conditional_depth |-> conditional_depth,
                            variables |-> variables], lines[line_no])
       IN /\ current_var' = st.current_var
          /\ current_value' = st.current_value
          /\ in_conditional' = st.in_conditional
          /\ conditional_depth' = st.conditional_depth
          /\ variables' = st.variables
    /\ line_no' = line_no + 1
    /\ UNCHANGED <<pc, lines, package_name, all_packages, urlVars, resolveVars, mainVars>>

\* Lines 127-131: save the last variable and return.
Parse_Return ==
    /\ pc = "parse_scan"
    /\ line_no > Len(lines)
    /\ variables' = Flush([current_var |-> current_var, current_value |-> current_value,
                           variables |-> variables])
    /\ pc' = "parse_returned"
    /\ UNCHANGED <<lines, line_no, current_var, current_value, in_conditional,
                   conditional_depth, package_name, all_packages,
                   urlVars, resolveVars, mainVars>>

NextParse == Parse_PackageName \/ Parse_Line \/ Parse_Return
SpecParse == InitParse /\ [][NextParse]_vars

\* How the scan classifies a line.
IsOpener(line) == StartsWith(Strip(line), KwIf)
IsCloser(line) == StartsWith(Strip(line), KwEndif)
IsAssignment(line) == AssignMatch(Strip(line)).found
\* A line that is neither skipped, nor a conditional keyword, nor an assignment:
\* the scan can only treat it as a continuation.
IsContinuation(line) ==
    /\ Strip(line) # << >>
    /\ ~StartsWith(Strip(line), <<"#">>)
    /\ ~IsOpener(line) /\ ~IsCloser(line)
    /\ ~StartsWith(Strip(line), KwElse)
    /\ ~StartsWith(Strip(line), KwDefine) /\ ~StartsWith(Strip(line), KwEndef)
    /\ ~IsAssignment(line)

\* The number of conditionals open after ls[i..j], counting from d.
RECURSIVE OpenAfter(_, _, _, _)
OpenAfter(ls, i, j, d) ==
    IF i > j THEN d
    ELSE OpenAfter(ls, i + 1, j,
                   IF IsOpener(ls[i]) THEN d + 1 ELSE IF IsCloser(ls[i]) THEN d - 1 ELSE d)

\* The endif matching the opener ls[i]; 0 when the block is never closed.
MatchingEndif(ls, i) ==
    LET closes == {j \in (i + 1)..Len(ls) : IsCloser(ls[j]) /\ OpenAfter(ls, i, j, 0) = 0}
    IN IF closes = {} THEN 0 ELSE Min(closes)

\* The file with its conditional blocks removed: every line from an opener
\* to its matching endif.
RECURSIVE WithoutConditionalBlocks(_, _)
WithoutConditionalBlocks(ls, i) ==
    IF i > Len(ls) THEN << >>
    ELSE IF IsOpener(ls[i]) /\ MatchingEndif(ls, i) # 0
    THEN WithoutConditionalBlocks(ls, MatchingEndif(ls, i) + 1)
    ELSE <<ls[i]>> \o WithoutConditionalBlocks(ls, i + 1)

\* C8 as stated: the returned map is the map of the same file with all
\* conditional blocks removed (no line inside a block contributes).
C8_ConditionalBodiesDropped ==
    pc = "parse_returned" =>
        variables = parse_mk_file(WithoutConditionalBlocks(lines, 1)).variables

\* C8 amended: while in_conditional is set, a continuation line changes
\* neither the value under construction nor the variables map, but a
\* '$(package)_<name>=<value>' assignment line still starts variable <name>
\* with that value: only continuation lines are dropped inside conditionals.
C8_OnlyContinuationsDropped ==
    [][(pc = "parse_scan" /\ line_no <= Len(lines) /\ in_conditional) =>
         IF IsAssignment(lines[line_no])
         THEN /\ current_var' = AssignMatch(Strip(lines[line_no])).group1
              /\ Len(current_value') = 1
              /\ variables' = Flush([current_var |-> current_var,
                                     current_value |-> current_value,
                                     variables |-> variables])
         ELSE /\ current_var' = current_var
              /\ current_value' = current_value
              /\ variables' = variables]_vars

\* A continuation line has just been scanned inside an open conditional,
\* with a variable under construction.
C8_Witness ==
    /\ pc = "parse_scan"
    /\ line_no > 1
    /\ IsContinuation(lines[line_no - 1])
    /\ in_conditional /\ conditional_depth > 0
    /\ current_var # None

\* C10: after every processed line conditional_depth is never negative and
\* in_conditional is true exactly when conditional_depth > 0.
C10_DepthTracksFlag ==
    /\ conditional_depth >= 0
    /\ in_conditional <=> conditional_depth > 0

\* ------------------------------- a resolution (Pass A, then Pass B) of one value
\* check_dependency_file, lines 361-367: resolve_variables on the raw value,
\* then resolve_cross_package_variables on what it returned.

MaxPieces == 2

\* A package index without cycles: package f, package g, and package f_g,
\* whose name has f as a prefix ($(f_g_v) is f's g_v or f_g's v).
IndexPlain ==
    <<[name |-> <<"f">>,
      vars |-> ((<<"v">> :> <<"1">>) @@
               (<<"w">> :> <<"$","(","p","a","c","k","a","g","e",")","-","$","(","f","_","v",")">>) @@
               (<<"g","_","v">> :> <<"2">>))],
     [name |-> <<"g">>,
      vars |-> ((<<"v">> :> <<"$","(","$","(","p","a","c","k","a","g","e",")","_","w",")">>) @@
               (<<"w">> :> <<"3">>))],
     [name |-> <<"f","_","g">>,
      vars |-> ((<<"v">> :> <<"4">>))]>>

\* A package index with cycles: f's v names itself, f's w names itself and
\* grows, g's v and f_g's v name each other.
IndexCyclic ==
    <<[name |-> <<"f">>,
      vars |-> ((<<"v">> :> <<"$","(","f","_","v",")">>) @@
               (<<"w">> :> <<"x","$","(","f","_","w",")">>))],
     [name |-> <<"g">>,
      vars |-> ((<<"v">> :> <<"$","(","f","_","g","_","v",")">>) @@
               (<<"w">> :> <<"3">>))],
     [name |-> <<"f","_","g">>,
      vars |-> ((<<"v">> :> <<"$","(","g","_","v",")">>))]>>

\* The orders in which depends_dir.glob('*.mk') can list the files of q: any.
Orders(q) == {[k \in 1..Len(q) |-> q[p[k]]] : p \in Permutations(1..Len(q))}

\* all_packages in the orders the directory listing can give it
Indexes == Orders(IndexPlain) \cup Orders(IndexCyclic)

\* The pieces a raw value is made of.
Pieces == {
    <<"$","(","p","a","c","k","a","g","e",")">>,
    <<"$","(","f","_","v",")">>,
    <<"$","(","g","_","v",")">>,
    <<"$","(","f","_","w",")">>,
    <<"$","(","f","_","g","_","v",")">>,
    <<"$","(","$","(","p","a","c","k","a","g","e",")","_","v",")">>,
    <<"$","(","u","_","z",")">> }

RECURSIVE PieceStrings(_)
PieceStrings(n) ==
    IF n = 0 THEN {<< >>}
    ELSE PieceStrings(n - 1) \cup {a \o t : a \in Pieces, t \in PieceStrings(n - 1)}

InitResolve ==
    /\ pc = "resolve_variables"
    /\ all_packages \in Indexes
    /\ package_name \in PackageNames(all_packages)
    /\ variables = PackageVars(all_packages, package_name)
    /\ value \in PieceStrings(MaxPieces)
    /\ result = value
    /\ iteration = 0 /\ changed = FALSE
    /\ matches = << >> /\ match_idx = 0 /\ branch = "none" /\ inner_iteration = 0
    /\ UrlIdle /\ ParseIdle /\ MainIdle

\* resolve_variables, lines 143-182: one iteration of the while loop; the
\* loop is left (break) when the pass changed nothing.
Resolve_Iteration ==
    /\ pc = "resolve_variables"
    /\ ResolveLoopGuard(iteration)
    /\ iteration' = iteration + 1
    /\ \E it \in {ResolveIteration(result, variables, package_name)} :
          /\ result' = it.result
          /\ changed' = it.changed
          /\ pc' = IF it.changed THEN "resolve_variables" ELSE "resolve_returned"
    /\ UNCHANGED <<value, matches, match_idx, branch, inner_iteration,
                   sharedVars, urlVars, parseVars, mainVars>>

\* resolve_variables, lines 143 and 184: the loop ends at max_iterations.
Resolve_Exhausted ==
    /\ pc = "resolve_variables"
    /\ ~ResolveLoopGuard(iteration)
    /\ pc' = "resolve_returned"
    /\ UNCHANGED <<resolveVars, sharedVars, urlVars, parseVars, mainVars>>

\* check_dependency_file, lines 365-366, and resolve_cross_package_variables,
\* lines 266-268: the call on the string Pass A returned.
Cross_Call ==
    /\ pc = "resolve_returned"
    /\ all_packages # << >>
    /\ iteration' = 0
    /\ changed' = FALSE
    /\ pc' = "cross_while"
    /\ UNCHANGED <<value, result, matches, match_idx, branch, inner_iteration,
                   sharedVars, urlVars, parseVars, mainVars>>

\* Lines 270-278: a round starts and lists its matches.
Cross_Round ==
    /\ pc = "cross_while"
    /\ CrossLoopGuard(iteration)
    /\ iteration' = iteration + 1
    /\ changed' = FALSE
    /\ \E ms \in {CrossMatches(result)} :
          /\ matches' = ms
          /\ match_idx' = Len(ms)
    /\ pc' = "cross_for"
    /\ UNCHANGED <<value, result, branch, inner_iteration,
                   sharedVars, urlVars, parseVars, mainVars>>

\* Lines 280-311: the next match of the round, last to first.
Cross_Match ==
    /\ pc = "cross_for"
    /\ match_idx > 0
    /\ \E one \in {CrossSubstitute(result, matches[match_idx], package_name, all_packages)} :
          /\ result' = one.result
          /\ changed' = (changed \/ one.changed)
          /\ branch' = one.branch
          /\ inner_iteration' = one.inner
    /\ match_idx' = match_idx - 1
    /\ UNCHANGED <<pc, value, iteration, matches, sharedVars, urlVars, parseVars, mainVars>>

\* Lines 313-314: the round is over; break when it substituted nothing.
Cross_RoundEnd ==
    /\ pc = "cross_for"
    /\ match_idx = 0
    /\ pc' = IF changed THEN "cross_while" ELSE "cross_returned"
    /\ UNCHANGED <<resolveVars, sharedVars, urlVars, parseVars, mainVars>>

\* Lines 270 and 316: the loop ends at max_iterations.
Cross_Exhausted ==
    /\ pc = "cross_while"
    /\ ~CrossLoopGuard(iteration)
    /\ pc' = "cross_returned"
    /\ UNCHANGED <<resolveVars, sharedVars, urlVars, parseVars, mainVars>>

NextResolve ==
    \/ Resolve_Iteration \/ Resolve_Exhausted
    \/ Cross_Call \/ Cross_Round \/ Cross_Match \/ Cross_RoundEnd \/ Cross_Exhausted

SpecResolve == InitResolve /\ [][NextResolve]_vars

\* What is left of the resolution: the phase, the iterations left in its
\* loop (doubled, a round being two steps), the matches left in the round.
Remaining ==
    CASE pc = "resolve_variables" -> <<3, max_iterations + 1 - iteration, 0>>
      [] pc = "resolve_returned" -> <<2, 0, 0>>
      [] pc = "cross_while" -> <<1, 2 * (cross_max_iterations + 1 - iteration), 0>>
      [] pc = "cross_for" -> <<1, 2 * (cross_max_iterations + 1 - iteration) + 1, match_idx>>
      [] OTHER -> <<0, 0, 0>>

\* Lexicographic order on triples of naturals
LexLess3(a, b) ==
    \/ a[1] < b[1]
    \/ a[1] = b[1] /\ a[2] < b[2]
    \/ a[1] = b[1] /\ a[2] = b[2] /\ a[3] < b[3]

\* C1: resolve_variables runs at most 20 iterations (the call on the raw
\* value and every call a cross-package round makes) and the cross-package
\* loop at most 10 rounds; every step leaves strictly less to do, in a
\* well-founded order, and a call that has not returned can take a step: the
\* resolution terminates and returns a string.
C1_BoundedAndReturns ==
    /\ [](/\ pc \in {"resolve_variables", "resolve_returned"} => iteration <= 20
          /\ pc \in {"cross_while", "cross_for", "cross_returned"} => iteration <= 10
          /\ inner_iteration <= 20
          /\ \A k \in 1..3 : Remaining[k] >= 0
          /\ pc # "cross_returned" =>
                \/ pc = "resolve_variables"
                \/ pc = "resolve_returned" /\ all_packages # << >>
                \/ pc = "cross_while"
                \/ pc = "cross_for" /\ match_idx >= 0)
    /\ [][LexLess3(Remaining', Remaining)]_vars

\* A cyclic definition drove the cross-package loop through all 10 rounds,
\* the last round's resolve_variables call through all 20 iterations.
C1_Witness ==
    /\ pc = "cross_returned"
    /\ iteration = 10
    /\ inner_iteration = 20
    /\ changed
    /\ Contains(result, <<"$", "(">>)

\* '$(<package_name>_<key>)'
OwnPlaceholder(pkg, key) == <<"$", "(">> \o pkg \o <<"_">> \o key \o <<")">>

\* C4: when resolve_variables leaves its loop because a pass changed nothing,
\* the result holds no '$(package)' and no '$(<package_name>_<key>)' with
\* <key> one of the package's variables.
C4_PassAFixedPoint ==
    (pc = "resolve_returned" /\ ~changed) =>
        /\ ~Contains(result, PackageToken)
        /\ \A key \in DOMAIN variables :
              ~Contains(result, OwnPlaceholder(package_name, key))

\* The match the for loop has just processed.
LastProcessed == matches[match_idx + 1]

\* C9: the last-underscore fallback never substitutes: whenever its
\* conditions hold for a match, the prefix scan has substituted that match.
C9_FallbackNeverSubstitutes ==
    /\ branch # "fallback"
    /\ (/\ pc = "cross_for"
        /\ match_idx < Len(matches)
        /\ FallbackHits(LastProcessed.full_var, package_name, all_packages))
       => branch = "prefix"

\* The fallback's conditions hold for a placeholder whose package name itself
\* contains an underscore, and the prefix scan has substituted it.
C9_Witness ==
    /\ pc = "cross_for"
    /\ match_idx < Len(matches)
    /\ FallbackHits(LastProcessed.full_var, package_name, all_packages)
    /\ Len(RSplitUnderscore(LastProcessed.full_var)[1]) > 1
    /\ branch = "prefix"
    /\ changed

\* ------------------------------------------------------------ a run of main

MaxFiles == 2

\* The files depends/packages can hold, by name, and what each contains.
CrossMk ==
    <<<<"p","a","c","k","a","g","e","=","c","r","o","s","s">>,
      <<"$","(","p","a","c","k","a","g","e",")","_","d","o","w","n","l","o","a","d","_","p","a","t","h","=","$","(","f","o","n","t","c","o","n","f","i","g","_","d","o","w","n","l","o","a","d","_","p","a","t","h",")">>,
      <<"$","(","p","a","c","k","a","g","e",")","_","f","i","l","e","_","n","a","m","e","=","c","-","$","(","f","o","n","t","c","o","n","f","i","g","_","v","e","r","s","i","o","n",")">>>>
DummyMk ==
    <<<<"p","a","c","k","a","g","e","=","d","u","m","m","y">>,
      <<"$","(","p","a","c","k","a","g","e",")","_","d","o","w","n","l","o","a","d","_","p","a","t","h","=","h">>,
      <<"$","(","p","a","c","k","a","g","e",")","_","f","i","l","e","_","n","a","m","e","=","d">>>>
FontconfigMk ==
    <<<<"p","a","c","k","a","g","e","=","f","o","n","t","c","o","n","f","i","g">>,
      <<"$","(","p","a","c","k","a","g","e",")","_","v","e","r","s","i","o","n","=","2">>,
      <<"$","(","p","a","c","k","a","g","e",")","_","d","o","w","n","l","o","a","d","_","p","a","t","h","=","h","/","$","(","p","a","c","k","a","g","e",")","/">>,
      <<"$","(","p","a","c","k","a","g","e",")","_","f","i","l","e","_","n","a","m","e","=","$","(","p","a","c","k","a","g","e",")","-","$","(","$","(","p","a","c","k","a","g","e",")","_","v","e","r","s","i","o","n",")">>>>
NodpMk ==
    <<<<"p","a","c","k","a","g","e","=","n","o","d","p">>,
      <<"$","(","p","a","c","k","a","g","e",")","_","f","i","l","e","_","n","a","m","e","=","n">>>>
NopkgMk ==
    <<<<"#"," ","n","o"," ","p","a","c","k","a","g","e">>,
      <<"$","(","p","a","c","k","a","g","e",")","_","f","i","l","e","_","n","a","m","e","=","n">>>>
ZeromqMk ==
    <<<<"p","a","c","k","a","g","e","=","z","e","r","o","m","q">>,
      <<"$","(","p","a","c","k","a","g","e",")","_","d","o","w","n","l","o","a","d","_","p","a","t","h","=","h">>,
      <<"$","(","p","a","c","k","a","g","e",")","_","f","i","l","e","_","n","a","m","e","=","z">>,
      <<"i","f","e","q"," ","(","$","(","h","o","s","t","_","o","s",")",",","m","i","n","g","w","3","2",")">>,
      <<"$","(","p","a","c","k","a","g","e",")","_","d","o","w","n","l","o","a","d","_","f","i","l","e","=","v">>,
      <<"e","n","d","i","f">>>>

NameCrossMk == <<"c","r","o","s","s",".","m","k">>
NameDummyMk == <<"d","u","m","m","y",".","m","k">>
NameFontconfigMk == <<"f","o","n","t","c","o","n","f","i","g",".","m","k">>
NameNodpMk == <<"n","o","d","p",".","m","k">>
\* A file named '.mk', which glob('*.mk') lists too
NameDotMk == <<".","m","k">>
NameZeromqMk == <<"z","e","r","o","m","q",".","m","k">>

FileNames == {NameCrossMk, NameDummyMk, NameFontconfigMk, NameNodpMk, NameDotMk, NameZeromqMk}

Content(name) ==
    CASE name = NameCrossMk -> CrossMk
      [] name = NameDummyMk -> DummyMk
      [] name = NameFontconfigMk -> FontconfigMk
      [] name = NameNodpMk -> NodpMk
      [] name = NameDotMk -> NopkgMk
      [] name = NameZeromqMk -> ZeromqMk

\* What requests.head can do.
ProbeOutcomes ==
    {HttpResponse(200), HttpResponse(404), HttpResponse(418), HttpResponse(500),
     Timeout, ConnectionError, TooManyRedirects, RequestException, OtherException}
\* The log entry of a file whose URL was never probed.
NoProbe == [kind |-> "none", code |-> 0]

\* The characters of file names in code point order, for sorted()
CodePointOrder ==
    <<"-",".","0","1","2","3","4","5","6","7","8","9","A","B","C","D","E",
      "F","G","H","I","J","K","L","M","N","O","P","Q","R","S","T","U","V",
      "W","X","Y","Z","_","a","b","c","d","e","f","g","h","i","j","k","l",
      "m","n","o","p","q","r","s","t","u","v","w","x","y","z">>
CodePoint(c) == CHOOSE k \in 1..Len(CodePointOrder) : CodePointOrder[k] = c

\* a < b for two str
StrLess(a, b) ==
    \E k \in 1..(Len(a) + 1) :
        /\ k <= Len(b)
        /\ SubSeq(a, 1, k - 1) = SubSeq(b, 1, k - 1)
        /\ k = Len(a) + 1 \/ CodePoint(a[k]) < CodePoint(b[k])

\* sorted(S)
RECURSIVE Sorted(_)
Sorted(S) ==
    IF S = {} THEN << >>
    ELSE LET least == CHOOSE x \in S : \A y \in S \ {x} : StrLess(x, y)
         IN <<least>> \o Sorted(S \ {least})

ExcludedNames == {<<"p","a","c","k","a","g","e","s",".","m","k">>, <<"d","u","m","m","y",".","m","k">>}
\* glob('*.mk') less packages.mk and dummy.mk (lines 251-255 and 414-415)
MkFileNames(names) == {n \in names : EndsWith(n, <<".", "m", "k">>) /\ n \notin ExcludedNames}
\* Path.stem: the name up to its last dot; the whole name when it has no
\* dot or its only dot comes first ('.mk') or last.
Stem(name) ==
    LET dots == {i \in 1..Len(name) : name[i] = "."}
    IN IF dots = {} \/ Max(dots) = 1 \/ Max(dots) = Len(name) THEN name
       ELSE SubSeq(name, 1, Max(dots) - 1)

\* all_packages[name] = vs: a new key goes last, a known key keeps its place
DictSet(ap, name, vs) ==
    IF name \in PackageNames(ap)
    THEN [k \in 1..Len(ap) |-> IF ap[k].name = name THEN [name |-> name, vars |-> vs] ELSE ap[k]]
    ELSE Append(ap, [name |-> name, vars |-> vs])

\* error_count > 0 (lines 457 and 475)
HasErrors(rs) == \E k \in 1..Len(rs) : rs[k].status = "error"

InitMain ==
    /\ pc = "main"
    /\ dir_exists \in BOOLEAN
    /\ dir_names \in {S \in SUBSET FileNames : Cardinality(S) <= MaxFiles}
    /\ ~dir_exists => dir_names = {}
    /\ mk_files = << >> /\ to_load = {} /\ idx = 0 /\ results = << >> /\ io_log = << >>
    /\ exit_code = -1 /\ traceback = FALSE
    /\ package_name = None /\ variables = EmptyDict /\ all_packages = << >>
    /\ UrlIdle /\ ParseIdle /\ ResolveIdle

\* sys.exit(code)
Exit(code) == pc' = "exit" /\ exit_code' = code
\* An exception nothing catches: the traceback is printed, the status is 1.
Uncaught == pc' = "exit" /\ exit_code' = 1 /\ traceback' = TRUE

\* Lines 408-410
Main_CheckDir ==
    /\ pc = "main"
    /\ IF dir_exists THEN pc' = "glob" /\ exit_code' = exit_code ELSE Exit(1)
    /\ UNCHANGED <<dir_exists, dir_names, mk_files, to_load, idx, results, io_log, traceback,
                   sharedVars, urlVars, parseVars, resolveVars>>

\* Lines 414-421
Main_Glob ==
    /\ pc = "glob"
    /\ mk_files' = Sorted(MkFileNames(dir_names))
    /\ IF MkFileNames(dir_names) = {}
       THEN Exit(1) /\ to_load' = to_load
       ELSE pc' = "load" /\ exit_code' = exit_code /\ to_load' = MkFileNames(dir_names)
    /\ UNCHANGED <<dir_exists, dir_names, idx, results, io_log, traceback,
                   sharedVars, urlVars, parseVars, resolveVars>>

\* load_all_packages, lines 251-258: the next file in the order the
\* directory gives them; open() can fail, and nothing catches that here.
Main_LoadPackage ==
    /\ pc = "load"
    /\ \E name \in to_load, read_ok \in BOOLEAN :
          /\ to_load' = to_load \ {name}
          /\ IF ~read_ok
             THEN Uncaught /\ all_packages' = all_packages
             ELSE /\ UNCHANGED <<pc, exit_code, traceback>>
                  /\ all_packages' =
                        IF parse_mk_file(Content(name)).package_name # None
                        THEN DictSet(all_packages,
                                     parse_mk_file(Content(name)).package_name,
                                     parse_mk_file(Content(name)).variables)
                        ELSE all_packages
    /\ UNCHANGED <<dir_exists, dir_names, mk_files, idx, results, io_log,
                   package_name, variables, urlVars, parseVars, resolveVars>>

\* Lines 425-429: load_all_packages has returned
Main_Loaded ==
    /\ pc = "load"
    /\ to_load = {}
    /\ results' = << >>
    /\ idx' = 1
    /\ pc' = "for"
    /\ UNCHANGED <<dir_exists, dir_names, mk_files, to_load, io_log, exit_code, traceback,
                   sharedVars, urlVars, parseVars, resolveVars>>

\* Lines 432-436: parse_mk_file for the progress line, outside any try.
Main_ForParse ==
    /\ pc = "for"
    /\ idx <= Len(mk_files)
    /\ \E read_ok \in BOOLEAN :
          IF ~read_ok
          THEN Uncaught /\ package_name' = package_name
          ELSE /\ pc' = "for_check"
               /\ UNCHANGED <<exit_code, traceback>>
               /\ package_name' =
                     IF parse_mk_file(Content(mk_files[idx])).package_name # None
                     THEN parse_mk_file(Content(mk_files[idx])).package_name
                     ELSE Stem(mk_files[idx])
    /\ UNCHANGED <<dir_exists, dir_names, mk_files, to_load, idx, results, io_log,
                   variables, all_packages, urlVars, parseVars, resolveVars>>

\* Lines 438-451: check_dependency_file and results.append
Main_ForCheck ==
    /\ pc = "for_check"
    /\ \E read_ok \in BOOLEAN, probe \in ProbeOutcomes :
          /\ results' = Append(results,
                 check_dependency_file(read_ok, Content(mk_files[idx]), Stem(mk_files[idx]),
                                       all_packages, probe))
          /\ io_log' = Append(io_log,
                 [read_ok |-> read_ok,
                  probe |-> IF Probes(read_ok, Content(mk_files[idx]), Stem(mk_files[idx]),
                                      all_packages)
                            THEN probe ELSE NoProbe])
    /\ idx' = idx + 1
    /\ pc' = "for"
    /\ UNCHANGED <<dir_exists, dir_names, mk_files, to_load, exit_code, traceback,
                   sharedVars, urlVars, parseVars, resolveVars>>

\* Lines 453-478: the summary and the exit code
Main_Summary ==
    /\ pc = "for"
    /\ idx > Len(mk_files)
    /\ Exit(IF HasErrors(results) THEN 1 ELSE 0)
    /\ UNCHANGED <<dir_exists, dir_names, mk_files, to_load, idx, results, io_log, traceback,
                   sharedVars, urlVars, parseVars, resolveVars>>

Next ==
    \/ Main_CheckDir \/ Main_Glob \/ Main_LoadPackage \/ Main_Loaded
    \/ Main_ForParse \/ Main_ForCheck \/ Main_Summary
Spec == InitMain /\ [][Next]_vars

\* ------------------------------------------------- properties of a run

\* The run has ended after finding a non-empty file set.
RanOnFiles == pc = "exit" /\ mk_files # << >>

\* C2: a failure while reading or processing one file never aborts the run:
\* a run that found files ends in the summary, without a traceback, with
\* exactly one result per enumerated file, and a file whose read failed in
\* check_dependency_file has the result 'Error processing: <details>'.
C2_RunNeverAborts ==
    RanOnFiles =>
        /\ ~traceback
        /\ Len(results) = Len(mk_files)
        /\ \A i \in 1..Len(results) :
              ~io_log[i].read_ok => results[i] = ErrorProcessing(Stem(mk_files[i]))

\* The text of a file has a line '$(package)_download_path', optional white
\* space, '=', and a value.
DefinesDownloadPath(ls) ==
    \E k \in 1..Len(ls) :
        LET s == Strip(ls[k])
            key == AssignPrefix \o KeyDownloadPath
        IN /\ StartsWith(s, key)
           /\ \E q \in (Len(key) + 1)..(Len(s) - 1) :
                 /\ s[q] = "="
                 /\ \A j \in (Len(key) + 1)..(q - 1) : IsSpace(s[j])

\* The files of the run that were read and define no download_path.
WithoutDownloadPath ==
    {i \in 1..Len(results) :
        io_log[i].read_ok /\ ~DefinesDownloadPath(Content(mk_files[i]))}

\* C3 as stated: every file that defines no download_path gets status skip
\* with the message 'Missing required variable (download_path)', whatever
\* else it contains or omits.
C3_MissingDownloadPathSkips ==
    \A i \in WithoutDownloadPath :
        /\ results[i].status = "skip"
        /\ results[i].message = "Missing required variable (download_path)"

\* C3 amended: a file that names its package and defines no download_path
\* gets status skip with the message 'Missing required variable
\* (download_path)'; a file in which no package name is found gets status
\* error with the message 'Failed to determine package name'.
C3_MissingDownloadPathSkipsNamed ==
    \A i \in WithoutDownloadPath :
        IF ExtractPackageName(Content(mk_files[i])) # None
        THEN results[i] =
                [package |-> ExtractPackageName(Content(mk_files[i])),
                 status |-> "skip",
                 message |-> "Missing required variable (download_path)"]
        ELSE results[i] =
                [package |-> Stem(mk_files[i]),
                 status |-> "error",
                 message |-> "Failed to determine package name"]

\* A file that names its package and defines no download_path was checked.
C3_Witness ==
    \E i \in WithoutDownloadPath :
        /\ ExtractPackageName(Content(mk_files[i])) # None
        /\ results[i].status = "skip"

\* C6: a run that found files exits with 1 exactly when a result has status
\* error and with 0 otherwise; a missing directory or an empty file set
\* exits with 1 and no result.
C6_ExitCodeIffError ==
    pc = "exit" =>
        IF mk_files # << >>
        THEN /\ exit_code \in {0, 1}
             /\ exit_code = 1 <=> HasErrors(results)
        ELSE exit_code = 1 /\ results = << >>

\* The files of the run whose URL was probed.
Probed == {i \in 1..Len(results) : io_log[i].probe # NoProbe}
TransportFailures == {Timeout, ConnectionError, TooManyRedirects, RequestException}

\* C7: the result of a probed file is ok exactly when the probe returned 200,
\* or 418 for the package named fontconfig; it is error otherwise, with the
\* message 'HTTP 418' for a 418 of any other package and the status code 0
\* for a transport failure.
C7_OkIffReachable ==
    \A i \in Probed :
        LET r == results[i]
            p == io_log[i].probe
            name == ExtractPackageName(Content(mk_files[i]))
        IN /\ r.status \in {"ok", "error"}
           /\ r.status = "ok" <=>
                 /\ p.kind = "response"
                 /\ p.code = 200 \/ (p.code = 418 /\ name = Fontconfig)
           /\ p = HttpResponse(418) /\ name # Fontconfig => r.message = "HTTP 418"
           /\ p \in TransportFailures => r.status_code = 0

\* One run probed fontconfig and another package and both answered 418.
C7_Witness ==
    \E i, j \in Probed :
        /\ io_log[i].probe = HttpResponse(418)
        /\ ExtractPackageName(Content(mk_files[i])) = Fontconfig
        /\ results[i].status = "ok"
        /\ io_log[j].probe = HttpResponse(418)
        /\ ExtractPackageName(Content(mk_files[j])) # Fontconfig
        /\ results[j].status = "error"

====
